---- MODULE Spec2Model ----
(***************************************************************************)
(* Model of global_currency_calibrator.py: the Frankfurter rate client     *)
(* (fetch_conversion, fetch_timeseries), the input utilities               *)
(* (normalize_ccy, float/int parsing) and the CurrencyApp.on_convert       *)
(* pipeline with its text output, error dialogs and chart windows.         *)
(*                                                                         *)
(* Strings are sequences of one-character tokens.  Three tokens stand for  *)
(* non-ASCII letters of Python's str type: "sz" is U+00DF (lower case,     *)
(* upper() gives "SS"), "kra" is U+0138 (a lower-case letter that upper()  *)
(* leaves unchanged) and "han" is a caseless CJK letter.                   *)
(* Floats are modelled as exact rationals plus nan and +/-inf.             *)
(***************************************************************************)
EXTENDS Integers, Sequences, FiniteSets, TLC

VARIABLES pc, output, inp, args, conv, series, avg, calls, dialogs, charts,
          outcome, failedAt, raised, convOk, escaped, outBefore, fnIn, fnOut

vars == <<pc, output, inp, args, conv, series, avg, calls, dialogs, charts,
          outcome, failedAt, raised, convOk, escaped, outBefore, fnIn, fnOut>>

(* ------------------------------ bounds --------------------------------- *)

\* longest raw currency string enumerated for normalize_ccy
MaxLen == 4

\* number of calendar days the history endpoint may report (day MaxDay is today)
MaxDay == 3

(* ------------------------------ strings -------------------------------- *)

AsciiLower == <<"a","b","c","d","e","f","g","h","i","j","k","l","m",
                "n","o","p","q","r","s","t","u","v","w","x","y","z">>

AsciiUpper == <<"A","B","C","D","E","F","G","H","I","J","K","L","M",
                "N","O","P","Q","R","S","T","U","V","W","X","Y","Z">>

Digits == <<"0","1","2","3","4","5","6","7","8","9">>

Range(s) == {s[i] : i \in 1..Len(s)}

LowerSet == Range(AsciiLower)

UpperSet == Range(AsciiUpper)

DigitSet == Range(Digits)

IndexOf(c, s) == CHOOSE i \in 1..Len(s) : s[i] = c

\* str.isspace for one character
IsSpace(c) == c = " "

\* str.isalpha for one character
IsAlphaChar(c) == c \in LowerSet \/ c \in UpperSet \/ c \in {"sz", "kra", "han"}

\* str.isupper / str.islower for one character
IsUpperChar(c) == c \in UpperSet

IsLowerChar(c) == c \in LowerSet \/ c \in {"sz", "kra"}

IsDigitChar(c) == c \in DigitSet

DigitVal(c) == IndexOf(c, Digits) - 1

\* str.upper for one character: a sequence, since U+00DF expands to "SS"
UpperChar(c) ==
    IF c \in LowerSet THEN <<AsciiUpper[IndexOf(c, AsciiLower)]>>
    ELSE IF c = "sz" THEN <<"S", "S">>
    ELSE <<c>>

RECURSIVE Upper(_)
Upper(s) == IF s = <<>> THEN <<>> ELSE UpperChar(Head(s)) \o Upper(Tail(s))

RECURSIVE LStrip(_)
LStrip(s) == IF s # <<>> /\ IsSpace(Head(s)) THEN LStrip(Tail(s)) ELSE s

RECURSIVE RStrip(_)
RStrip(s) ==
    IF s # <<>> /\ IsSpace(s[Len(s)]) THEN RStrip(SubSeq(s, 1, Len(s) - 1)) ELSE s

\* str.strip
Strip(s) == RStrip(LStrip(s))

\* str.isalpha: every character alphabetic and at least one character
IsAlpha(s) == s # <<>> /\ \A i \in 1..Len(s) : IsAlphaChar(s[i])

IsDigitStr(s) == s # <<>> /\ \A i \in 1..Len(s) : IsDigitChar(s[i])

(* ------------------------------ results -------------------------------- *)

\* a call that returned val
Ok(v) == [exc |-> "none", val |-> v]

\* a call that raised the exception class e
Raise(e) == [exc |-> e, val |-> <<>>]

(* --------------------------- normalize_ccy ----------------------------- *)

normalize_ccy(ccy) ==
    LET c == Upper(Strip(ccy))
    IN  IF Len(c) # 3 \/ ~IsAlpha(c) THEN Raise("ValueError") ELSE Ok(c)

(* ------------------------------ floats --------------------------------- *)

Abs(n) == IF n < 0 THEN -n ELSE n

RECURSIVE GCD(_, _)
GCD(a, b) == IF b = 0 THEN a ELSE GCD(b, a % b)

\* the rational n/d in lowest terms with a positive denominator
Fin(n, d) ==
    LET g == GCD(Abs(n), Abs(d))
        sg == IF d < 0 THEN -1 ELSE 1
    IN  [t |-> "fin", n |-> (sg * n) \div g, d |-> Abs(d) \div g]

NaN == [t |-> "nan", n |-> 0, d |-> 1]

Inf(sign) == [t |-> "inf", n |-> sign, d |-> 1]

FromInt(n) == Fin(n, 1)

IsZero(x) == x.t = "fin" /\ x.n = 0

Sign(x) == IF x.n < 0 THEN -1 ELSE 1

\* Python's x / y on floats, for y # 0 (y = 0 raises ZeroDivisionError)
FDiv(x, y) ==
    IF x.t = "nan" \/ y.t = "nan" THEN NaN
    ELSE IF x.t = "inf" /\ y.t = "inf" THEN NaN
    ELSE IF x.t = "inf" THEN Inf(Sign(x) * Sign(y))
    ELSE IF y.t = "inf" THEN Fin(0, 1)
    ELSE Fin(x.n * y.d, x.d * y.n)

\* Python's x / y as a call: raises on a zero divisor
PyDiv(x, y) == IF IsZero(y) THEN Raise("ZeroDivisionError") ELSE Ok(FDiv(x, y))

FAdd(x, y) == Fin(x.n * y.d + y.n * x.d, x.d * y.d)

RECURSIVE Sum(_)
Sum(vs) == IF vs = <<>> THEN Fin(0, 1) ELSE FAdd(Head(vs), Sum(Tail(vs)))

(* ------------------------------ parsing -------------------------------- *)

RECURSIVE DigitsVal(_)
DigitsVal(s) ==
    IF s = <<>> THEN 0 ELSE 10 * DigitsVal(SubSeq(s, 1, Len(s) - 1)) + DigitVal(s[Len(s)])

RECURSIVE Pow10(_)
Pow10(k) == IF k = 0 THEN 1 ELSE 10 * Pow10(k - 1)

HasSign(s) == s # <<>> /\ Head(s) \in {"+", "-"}

SignOf(s) == IF s # <<>> /\ Head(s) = "-" THEN -1 ELSE 1

Unsigned(s) == IF HasSign(s) THEN Tail(s) ELSE s

DotAt(s) == IF "." \in Range(s) THEN IndexOf(".", s) ELSE 0

\* float(text): surrounding blanks, a sign, then nan, inf, digits or digits.digits
PyFloat(text) ==
    LET s == Strip(text)
        u == Unsigned(s)
        k == DotAt(u)
        ip == IF k = 0 THEN u ELSE SubSeq(u, 1, k - 1)
        fp == IF k = 0 THEN <<>> ELSE SubSeq(u, k + 1, Len(u))
    IN  IF Upper(u) = <<"N","A","N">> THEN Ok(NaN)
        ELSE IF Upper(u) = <<"I","N","F">> THEN Ok(Inf(SignOf(s)))
        ELSE IF k = 0 /\ IsDigitStr(u) THEN Ok(Fin(SignOf(s) * DigitsVal(u), 1))
        ELSE IF /\ k > 0
                /\ ip \o fp # <<>>
                /\ \A i \in 1..Len(ip \o fp) : IsDigitChar((ip \o fp)[i])
             THEN Ok(Fin(SignOf(s) * DigitsVal(ip \o fp), Pow10(Len(fp))))
        ELSE Raise("ValueError")

\* int(text): surrounding blanks, a sign, then digits only
PyInt(text) ==
    LET s == Strip(text)
        u == Unsigned(s)
    IN  IF IsDigitStr(u) THEN Ok(SignOf(s) * DigitsVal(u)) ELSE Raise("ValueError")

(* ----------------------------- rate client ------------------------------ *)

\* JSON null / Python None, shaped like a float so that values stay comparable
Null == [t |-> "null", n |-> 0, d |-> 1]

\* dict.get(key): the value, or None when the key is absent
DictGet(dict, key) == IF key \in DOMAIN dict THEN dict[key] ELSE Null

\* the empty JSON object
EmptyDict == [c \in {} |-> Null]

\* UnitRate without the zero guard
UnitRate_NoGuard(converted, amount) == PyDiv(converted, amount)

\* rate = converted / amount if amount != 0 else float("nan")
UnitRate(converted, amount) ==
    IF ~IsZero(amount) THEN PyDiv(converted, amount) ELSE Ok(NaN)

\* fetch_conversion without the base == target short cut
fetch_conversion_NoShortCut(amount, base, target, resp) ==
    IF resp.status # "ok"
    THEN [exc |-> "RequestException", converted |-> NaN, rate |-> NaN,
          net |-> <<"latest">>]
    ELSE IF target \notin DOMAIN resp.rates
    THEN [exc |-> "ValueError", converted |-> NaN, rate |-> NaN, net |-> <<"latest">>]
    ELSE [exc |-> "none", converted |-> resp.rates[target],
          rate |-> IF IsZero(amount) THEN NaN ELSE FDiv(resp.rates[target], amount),
          net |-> <<"latest">>]

\* fetch_conversion(amount, base, target) against the reply resp of GET /latest.
\* resp.status is "ok", "transport" (requests.get raised) or "http"
\* (raise_for_status raised); resp.rates is data.get("rates", {}).
\* net lists the requests the call issued.
fetch_conversion(amount, base, target, resp) ==
    IF base = target
    THEN [exc |-> "none", converted |-> amount, rate |-> Fin(1, 1), net |-> <<>>]
    ELSE IF resp.status # "ok"
    THEN [exc |-> "RequestException", converted |-> NaN, rate |-> NaN,
          net |-> <<"latest">>]
    ELSE IF target \notin DOMAIN resp.rates
    THEN [exc |-> "ValueError", converted |-> NaN, rate |-> NaN, net |-> <<"latest">>]
    ELSE LET converted == resp.rates[target]
             r == UnitRate(converted, amount)
         IN  [exc |-> r.exc, converted |-> converted,
              rate |-> IF r.exc = "none" THEN r.val ELSE NaN,
              net |-> <<"latest">>]

\* today's date as a day number; the history window ends today
Today == MaxDay

RECURSIVE SortedSeq(_)
\* sorted(keys)
SortedSeq(S) ==
    IF S = {} THEN <<>>
    ELSE LET m == CHOOSE x \in S : \A y \in S : x <= y
         IN  <<m>> \o SortedSeq(S \ {m})

\* data["rates"].keys(): the reply's days, items being the object in wire order
Keys(items) == {items[i].day : i \in 1..Len(items)}

\* data["rates"][day]
PayloadOf(items, day) == items[CHOOSE i \in 1..Len(items) : items[i].day = day].payload

\* "if val:" in place of "if val is not None": a rate of 0.0 is dropped too
Keep_Truthy(val) == val # Null /\ ~IsZero(val)

\* if val is not None
Keep(val) == val # Null

RECURSIVE Collect(_, _, _)
\* the loop over sorted days: rates[day] = float(val) for each val that is kept
Collect(days, items, target) ==
    IF days = <<>> THEN <<>>
    ELSE LET val == DictGet(PayloadOf(items, Head(days)), target)
             rest == Collect(Tail(days), items, target)
         IN  IF Keep(val) THEN <<[day |-> Head(days), val |-> val]>> \o rest ELSE rest

\* fetch_timeseries(base, target, days) against the reply resp of the range
\* endpoint; the returned dict is the sequence rates in insertion order.
fetch_timeseries(base, target, days, resp) ==
    IF resp.status # "ok"
    THEN [exc |-> "RequestException", rates |-> <<>>, net |-> <<"timeseries">>]
    ELSE IF ~resp.hasRates
    THEN [exc |-> "ValueError", rates |-> <<>>, net |-> <<"timeseries">>]
    ELSE LET rates == Collect(SortedSeq(Keys(resp.items)), resp.items, target)
         IN  IF rates = <<>>
             THEN [exc |-> "ValueError", rates |-> <<>>, net |-> <<"timeseries">>]
             ELSE [exc |-> "none", rates |-> rates, net |-> <<"timeseries">>]

(* ----------------------------- aggregation ------------------------------ *)

\* list(rates.values())
Values(rates) == [i \in 1..Len(rates) |-> rates[i].val]

\* the average over all values, today's included
AvgRate_All(rates) == PyDiv(Sum(Values(rates)), FromInt(Len(rates)))

\* on_convert's average: all but the last value when the last day is today and
\* there is more than one value, otherwise all values
AvgRate(rates) ==
    LET is_today_included ==
            IF rates # <<>> THEN rates[Len(rates)].day = Today ELSE FALSE
        values == Values(rates)
    IN  IF is_today_included /\ Len(values) > 1
        THEN PyDiv(Sum(SubSeq(values, 1, Len(values) - 1)), FromInt(Len(values) - 1))
        ELSE PyDiv(Sum(values), FromInt(Len(values)))

(* ------------------------------ the form -------------------------------- *)

\* the StringVar defaults set in CurrencyApp.__init__
DefaultInputs ==
    [amount |-> <<"1","0","0">>, base |-> <<"I","N","R">>,
     target |-> <<"U","S","D">>, days |-> <<"3","0">>]

\* texts the user may leave in the amount entry
AmountInputs == {<<"1","0","0">>, <<" ","-","0",".","0">>, <<"i","n","f">>, <<"a","b","c">>}

\* texts the user may leave in the base entry
BaseInputs == {<<"I","N","R">>, <<"U","S","1">>}

\* texts the user may leave in the target entry
TargetInputs == {<<"i","n","r">>, <<"u","s","d"," ">>, <<"U","S">>}

\* texts the user may leave in the history-days entry
DaysInputs == {<<" ">>, <<" ","7">>, <<"0">>, <<"1",".","5">>}

RawInputs ==
    [amount : AmountInputs, base : BaseInputs, target : TargetInputs, days : DaysInputs]

NoArgs == [amount |-> NaN, base |-> <<>>, target |-> <<>>, days |-> 0]

\* Validate without the "days < 1" check
Validate_NoDaysCheck(raw) ==
    LET amount == PyFloat(raw.amount)
        base == normalize_ccy(raw.base)
        target == normalize_ccy(raw.target)
        days_str == Strip(raw.days)
        days == IF days_str # <<>> THEN PyInt(days_str) ELSE Ok(30)
    IN  IF amount.exc # "none" \/ base.exc # "none" \/ target.exc # "none"
           \/ days.exc # "none"
        THEN [exc |-> "ValueError", args |-> NoArgs]
        ELSE [exc |-> "none",
              args |-> [amount |-> amount.val, base |-> base.val,
                        target |-> target.val, days |-> days.val]]

\* the try block of on_convert up to the first fetch: parse and check the four
\* entries in order; the first failure raises ValueError
Validate(raw) ==
    LET amount == PyFloat(raw.amount)
        base == normalize_ccy(raw.base)
        target == normalize_ccy(raw.target)
        days_str == Strip(raw.days)
        days == IF days_str # <<>> THEN PyInt(days_str) ELSE Ok(30)
    IN  IF amount.exc # "none" THEN [exc |-> amount.exc, args |-> NoArgs]
        ELSE IF base.exc # "none" THEN [exc |-> base.exc, args |-> NoArgs]
        ELSE IF target.exc # "none" THEN [exc |-> target.exc, args |-> NoArgs]
        ELSE IF days.exc # "none" THEN [exc |-> days.exc, args |-> NoArgs]
        ELSE IF days.val < 1 THEN [exc |-> "ValueError", args |-> NoArgs]
        ELSE [exc |-> "none",
              args |-> [amount |-> amount.val, base |-> base.val,
                        target |-> target.val, days |-> days.val]]

\* only "except RequestException": every other exception leaves on_convert
Handler_NetworkOnly(exc) ==
    IF exc = "RequestException" THEN [dialog |-> <<"Network Error">>, escaped |-> FALSE]
    ELSE [dialog |-> <<>>, escaped |-> TRUE]

\* the except clauses of on_convert: which dialog an exception of class exc
\* opens, and whether it leaves on_convert
Handler(exc) ==
    IF exc = "RequestException" THEN [dialog |-> <<"Network Error">>, escaped |-> FALSE]
    ELSE [dialog |-> <<"Error">>, escaped |-> FALSE]

\* one _write_line call
Line(k, nums, strs) == [k |-> k, nums |-> nums, strs |-> strs]

\* the five lines written after fetch_conversion returned
ConversionLines(a, c) ==
    << Line("rule", <<>>, <<>>),
       Line("Amount", <<a.amount>>, <<a.base>>),
       Line("Current rate", <<c.rate>>, <<a.base, a.target>>),
       Line("Converted", <<c.converted>>, <<a.target>>),
       Line("rule", <<>>, <<>>) >>

\* the two lines written after the average is known
AverageLines(a, avg_rate) ==
    << Line("Avg rate", <<FromInt(a.days), avg_rate>>, <<a.target, a.base>>),
       Line("Close the charts", <<>>, <<>>) >>

\* the figures without the amount comparison
Plots_Two(rates, today_rate, avg_rate, amount, converted) ==
    << [kind |-> "rate_history", ys |-> Values(rates)],
       [kind |-> "today_vs_avg", ys |-> <<today_rate, avg_rate>>] >>

\* plot_rate_history, plot_today_vs_avg, plot_amount_comparison: one figure each
Plots(rates, today_rate, avg_rate, amount, converted) ==
    << [kind |-> "rate_history", ys |-> Values(rates)],
       [kind |-> "today_vs_avg", ys |-> <<today_rate, avg_rate>>],
       [kind |-> "amount_comparison", ys |-> <<amount, converted>>] >>

NoConv == [exc |-> "none", converted |-> NaN, rate |-> NaN]

\* the fields that describe the current on_convert run
RunVars == <<inp, args, conv, series, avg, calls, dialogs, charts,
             outcome, failedAt, raised, convOk, escaped, outBefore>>

AppInit ==
    /\ pc = "idle"
    /\ output = <<>>
    /\ inp = DefaultInputs
    /\ args = NoArgs
    /\ conv = NoConv
    /\ series = <<>>
    /\ avg = NaN
    /\ calls = <<>>
    /\ dialogs = <<>>
    /\ charts = <<>>
    /\ outcome = "none"
    /\ failedAt = "none"
    /\ raised = "none"
    /\ convOk = FALSE
    /\ escaped = FALSE
    /\ outBefore = <<>>

Init ==
    /\ AppInit
    /\ fnIn = <<>>
    /\ fnOut = <<>>

(* ---------------------------- replies of the service --------------------- *)

\* a currency the user never asks for, present in some replies
OtherCode == <<"E","U","R">>

\* converted amounts the latest endpoint may report
ConvertedValues == {Fin(6, 5)}

LatestReplies(target) ==
    {[status |-> "transport", rates |-> EmptyDict],
     [status |-> "http", rates |-> EmptyDict],
     [status |-> "ok", rates |-> EmptyDict],
     [status |-> "ok", rates |-> [c \in {OtherCode} |-> Fin(5, 1)]]}
    \cup {[status |-> "ok", rates |-> [c \in {target} |-> v]] : v \in ConvertedValues}

\* the per-day objects of a history reply
PayloadKinds(target) ==
    {EmptyDict,
     [c \in {target} |-> Null],
     [c \in {OtherCode} |-> Fin(5, 1)],
     [c \in {target} |-> Fin(0, 1)],
     [c \in {target, OtherCode} |-> IF c = target THEN Fin(10, 1) ELSE Fin(5, 1)],
     [c \in {target} |-> Fin(20, 1)],
     [c \in {target} |-> Fin(99, 1)]}

Item(day, payload) == [day |-> day, payload |-> payload]

HistoryFailures ==
    {[status |-> "transport", hasRates |-> FALSE, items |-> <<>>],
     [status |-> "http", hasRates |-> FALSE, items |-> <<>>],
     [status |-> "ok", hasRates |-> FALSE, items |-> <<>>]}

\* every "rates" object over the days 1..MaxDay, in every wire order
AllItems(target) ==
    UNION {{[i \in 1..k |-> Item(days[i], pl[i])] :
                days \in {f \in [1..k -> 1..MaxDay] :
                             \A i, j \in 1..k : i # j => f[i] # f[j]},
                pl \in [1..k -> PayloadKinds(target)]} : k \in 0..MaxDay}

AllHistoryReplies(target) ==
    HistoryFailures
    \cup {[status |-> "ok", hasRates |-> TRUE, items |-> it] : it \in AllItems(target)}

\* the history replies the application runs are driven with
HistoryReplies(target) ==
    HistoryFailures
    \cup {[status |-> "ok", hasRates |-> TRUE, items |-> it] :
            it \in {<<>>,
                    <<Item(1, [c \in {OtherCode} |-> Fin(5, 1)])>>,
                    <<Item(Today, [c \in {target} |-> Fin(99, 1)])>>,
                    <<Item(Today, [c \in {target} |-> Fin(99, 1)]),
                      Item(1, [c \in {target} |-> Fin(10, 1)]),
                      Item(2, [c \in {target} |-> Fin(20, 1)])>>}}

(* ------------------------------ on_convert ------------------------------- *)

\* a handler that reports the error and lets the failed step run again
Fail_Retry(stage, exc, shown) ==
    /\ dialogs' = shown \o Handler(exc).dialog
    /\ escaped' = Handler(exc).escaped
    /\ outcome' = "failed"
    /\ failedAt' = stage
    /\ raised' = exc
    /\ pc' = pc

\* an exception of class exc raised in the try block at the step stage; shown
\* is the list of dialogs the run has opened so far
Fail(stage, exc, shown) ==
    /\ dialogs' = shown \o Handler(exc).dialog
    /\ escaped' = Handler(exc).escaped
    /\ outcome' = "failed"
    /\ failedAt' = stage
    /\ raised' = exc
    /\ pc' = "idle"

\* "Convert & Plot" pressed: read and check the entries
OnConvert(raw) ==
    /\ pc = "idle"
    /\ inp' = raw
    /\ outBefore' = output
    /\ calls' = <<>>
    /\ charts' = <<>>
    /\ convOk' = FALSE
    /\ conv' = NoConv
    /\ series' = <<>>
    /\ avg' = NaN
    /\ LET v == Validate(raw)
       IN  /\ args' = v.args
           /\ IF v.exc # "none"
              THEN Fail("validation", v.exc, <<>>)
              ELSE /\ dialogs' = <<>>
                   /\ escaped' = FALSE
                   /\ outcome' = "running"
                   /\ failedAt' = "none"
                   /\ raised' = "none"
                   /\ pc' = "fetch_conversion"
    /\ UNCHANGED <<output, fnIn, fnOut>>

\* fetch_conversion returns or raises; on return the output is cleared and the
\* five conversion lines are written
ConversionStep(resp) ==
    /\ pc = "fetch_conversion"
    /\ LET r == fetch_conversion(args.amount, args.base, args.target, resp)
       IN  /\ calls' = calls \o r.net
           /\ IF r.exc # "none"
              THEN /\ Fail("conversion", r.exc, dialogs)
                   /\ UNCHANGED <<conv, convOk, output>>
              ELSE /\ conv' = [exc |-> r.exc, converted |-> r.converted, rate |-> r.rate]
                   /\ convOk' = TRUE
                   /\ output' = ConversionLines(args, r)
                   /\ pc' = "fetch_timeseries"
                   /\ UNCHANGED <<dialogs, escaped, outcome, failedAt, raised>>
    /\ UNCHANGED <<inp, args, series, avg, charts, outBefore, fnIn, fnOut>>

\* fetch_timeseries returns or raises; on return the average is computed, two
\* more lines are written, the three figures are created and plt.show() blocks
HistoryStep(resp) ==
    /\ pc = "fetch_timeseries"
    /\ LET r == fetch_timeseries(args.base, args.target, args.days, resp)
           a == AvgRate(r.rates)
       IN  /\ calls' = calls \o r.net
           /\ IF r.exc # "none"
              THEN /\ Fail("history", r.exc, dialogs)
                   /\ UNCHANGED <<series, avg, output, charts>>
              ELSE IF a.exc # "none"
              THEN /\ Fail("history", a.exc, dialogs)
                   /\ UNCHANGED <<series, avg, output, charts>>
              ELSE /\ series' = r.rates
                   /\ avg' = a.val
                   /\ output' = output \o AverageLines(args, a.val)
                   /\ charts' = Plots(r.rates, conv.rate, a.val, args.amount, conv.converted)
                   /\ pc' = "show"
                   /\ UNCHANGED <<dialogs, escaped, outcome, failedAt, raised>>
    /\ UNCHANGED <<inp, args, conv, convOk, outBefore, fnIn, fnOut>>

\* the user closes the chart windows: plt.show() and on_convert return
CloseCharts ==
    /\ pc = "show"
    /\ pc' = "idle"
    /\ outcome' = "ok"
    /\ UNCHANGED <<output, inp, args, conv, series, avg, calls, dialogs, charts,
                   failedAt, raised, convOk, escaped, outBefore, fnIn, fnOut>>

\* "Clear Output" pressed
clear_output ==
    /\ pc = "idle"
    /\ output' = <<>>
    /\ outcome' = "none"
    /\ failedAt' = "none"
    /\ raised' = "none"
    /\ UNCHANGED <<pc, inp, args, conv, series, avg, calls, dialogs, charts,
                   convOk, escaped, outBefore, fnIn, fnOut>>

Next ==
    \/ \E raw \in RawInputs : OnConvert(raw)
    \/ \E resp \in LatestReplies(args.target) : ConversionStep(resp)
    \/ \E resp \in HistoryReplies(args.target) : HistoryStep(resp)
    \/ CloseCharts
    \/ clear_output

Spec == Init /\ [][Next]_vars

(* ---------------- normalize_ccy applied to every short string ------------ *)

\* characters of the enumerated raw currency strings
CcyAlphabet == {"u", "s", "d", "S", "1", " ", "sz", "kra"}

CcyStrings == UNION {[1..k -> CcyAlphabet] : k \in 0..MaxLen}

Pending == [exc |-> "pending", val |-> <<>>]

CcyInit ==
    /\ AppInit
    /\ fnIn \in CcyStrings
    /\ fnOut = [stage |-> 0, first |-> Pending, second |-> Pending]

\* normalize_ccy(fnIn)
CcyNormalize ==
    /\ fnOut.stage = 0
    /\ fnOut' = [fnOut EXCEPT !.stage = 1, !.first = normalize_ccy(fnIn)]
    /\ UNCHANGED <<pc, output, RunVars, fnIn>>

\* normalize_ccy applied to the value it returned
CcyRenormalize ==
    /\ fnOut.stage = 1
    /\ fnOut.first.exc = "none"
    /\ fnOut' = [fnOut EXCEPT !.stage = 2, !.second = normalize_ccy(fnOut.first.val)]
    /\ UNCHANGED <<pc, output, RunVars, fnIn>>

CcyNext == CcyNormalize \/ CcyRenormalize

SpecCcy == CcyInit /\ [][CcyNext]_vars

(* ------------- fetch_timeseries and the average on every reply ----------- *)

HistTarget == <<"U","S","D">>

HistDays == 30

NoSeries == [exc |-> "pending", rates |-> <<>>, net |-> <<>>]

HistInit ==
    /\ AppInit
    /\ fnIn \in AllHistoryReplies(HistTarget)
    /\ fnOut = [stage |-> 0, ts |-> NoSeries, avg |-> Pending]

\* rates = fetch_timeseries(base, target, days) with the reply fnIn
HistFetch ==
    /\ fnOut.stage = 0
    /\ fnOut' = [fnOut EXCEPT !.stage = 1,
                              !.ts = fetch_timeseries(<<"I","N","R">>, HistTarget, HistDays, fnIn)]
    /\ UNCHANGED <<pc, output, RunVars, fnIn>>

\* the average on_convert computes from the returned series
HistAverage ==
    /\ fnOut.stage = 1
    /\ fnOut.ts.exc = "none"
    /\ fnOut' = [fnOut EXCEPT !.stage = 2, !.avg = AvgRate(fnOut.ts.rates)]
    /\ UNCHANGED <<pc, output, RunVars, fnIn>>

HistNext == HistFetch \/ HistAverage

SpecHist == HistInit /\ [][HistNext]_vars

(* ------------------------------- properties ------------------------------ *)

\* the entries raw fail the checks of section "Input Validation"
Invalid(raw) ==
    \/ PyFloat(raw.amount).exc # "none"
    \/ normalize_ccy(raw.base).exc # "none"
    \/ normalize_ccy(raw.target).exc # "none"
    \/ /\ Strip(raw.days) # <<>>
       /\ \/ PyInt(raw.days).exc # "none"
          \/ PyInt(raw.days).val < 1

\* C1: a run whose amount is not numeric, whose base or target is not a valid
\* 3-letter code, or whose days entry is neither blank nor an integer >= 1 has
\* ended with one error dialog, without any request and with the text output
\* as it was before the run.
C1_ValidationFailsFast ==
    (outcome # "none" /\ Invalid(inp)) =>
        /\ pc = "idle"
        /\ outcome = "failed"
        /\ failedAt = "validation"
        /\ dialogs = <<"Error">>
        /\ calls = <<>>
        /\ output = outBefore

\* a run rejected for its days entry alone, over a non-empty output
C1_Witness ==
    /\ outcome = "failed"
    /\ failedAt = "validation"
    /\ PyFloat(inp.amount).exc = "none"
    /\ normalize_ccy(inp.base).exc = "none"
    /\ normalize_ccy(inp.target).exc = "none"
    /\ Invalid(inp)
    /\ output # <<>>
    /\ calls = <<>>

\* C2: after a run that failed at any step (validation, conversion fetch or
\* history fetch) the text output equals its content before the run.
C2_NoPartialOutput ==
    (pc = "idle" /\ outcome = "failed") => output = outBefore

\* C4: with base = target, fetch_conversion returns (amount, 1.0), never
\* fails and issues no request.
C4_IdentityConversion ==
    /\ (convOk /\ args.base = args.target) =>
          /\ conv.converted = args.amount
          /\ conv.rate = Fin(1, 1)
          /\ \A i \in 1..Len(calls) : calls[i] # "latest"
    /\ (failedAt = "conversion") => args.base # args.target

\* fetch_conversion has returned for base = target and a non-zero amount
C4_Witness ==
    /\ pc = "fetch_timeseries"
    /\ convOk
    /\ args.base = args.target
    /\ args.amount = Fin(100, 1)
    /\ conv.converted = Fin(100, 1)
    /\ calls = <<>>

\* C5 as stated: for every successful call of fetch_conversion, base and
\* target equal or not, the rate is converted / amount when amount # 0 and NaN
\* when amount = 0, and the division never raises.
C5_RateIsQuotient ==
    /\ convOk =>
          IF IsZero(args.amount) THEN conv.rate = NaN
          ELSE conv.rate = FDiv(conv.converted, args.amount)
    /\ raised # "ZeroDivisionError"

\* C5 amended: for every successful call with base # target the rate is
\* converted / amount when amount # 0 and NaN when amount = 0; with
\* base = target the rate is 1.0 for every amount, which is converted / amount
\* for every finite non-zero amount; the division never raises.
C5_RateIsQuotientUnlessIdentity ==
    /\ (convOk /\ args.base # args.target) =>
          IF IsZero(args.amount) THEN conv.rate = NaN
          ELSE conv.rate = FDiv(conv.converted, args.amount)
    /\ (convOk /\ args.base = args.target) =>
          /\ conv.rate = Fin(1, 1)
          /\ (args.amount.t = "fin" /\ ~IsZero(args.amount)) =>
                conv.rate = FDiv(conv.converted, args.amount)
    /\ raised # "ZeroDivisionError"

\* a request for a zero amount has been answered and the rate is NaN
C5_Witness ==
    /\ convOk
    /\ args.base # args.target
    /\ IsZero(args.amount)
    /\ calls = <<"latest">>
    /\ conv.converted = Fin(6, 5)
    /\ conv.rate = NaN

\* C7: a run issues at most one conversion request and at most one history
\* request, in that order, the history request only after the conversion step
\* has succeeded, and nothing more once a step has failed.
C7_SequentialNoRetry ==
    /\ calls \in {<<>>, <<"latest">>, <<"timeseries">>, <<"latest", "timeseries">>}
    /\ (\E i \in 1..Len(calls) : calls[i] = "timeseries") => convOk
    /\ (pc = "fetch_timeseries") => (convOk /\ calls \in {<<>>, <<"latest">>})
    /\ (pc = "fetch_conversion") => calls = <<>>
    /\ (outcome = "failed") => pc = "idle"
    /\ (failedAt = "conversion") => calls = <<"latest">>
    /\ (failedAt = "validation") => calls = <<>>

\* both requests were issued, the second failed, and the run has ended
C7_Witness ==
    /\ calls = <<"latest", "timeseries">>
    /\ outcome = "failed"
    /\ failedAt = "history"
    /\ pc = "idle"

\* C8: a failed run has opened exactly one error dialog (the network dialog
\* for a request failure, the generic one otherwise), no exception has left
\* on_convert, and the application is idle: convert and clear can be started.
C8_FailureIsTerminalForTheRun ==
    (outcome = "failed") =>
        /\ Len(dialogs) = 1
        /\ dialogs[1] = (IF raised = "RequestException" THEN "Network Error" ELSE "Error")
        /\ ~escaped
        /\ pc = "idle"
        /\ ENABLED clear_output
        /\ ENABLED (\E raw \in RawInputs : OnConvert(raw))

\* a data error of the history step has been reported
C8_Witness ==
    /\ outcome = "failed"
    /\ failedAt = "history"
    /\ raised = "ValueError"
    /\ dialogs = <<"Error">>
    /\ pc = "idle"

ChartKinds == [i \in 1..Len(charts) |-> charts[i].kind]

\* C9: a run that succeeded has created exactly the three charts (rate
\* history, today vs average, amount comparison); a failed run has created
\* none, and charts exist only once every step of the run has succeeded.
C9_ChartsOnlyOnSuccess ==
    /\ (outcome = "ok") =>
          ChartKinds = <<"rate_history", "today_vs_avg", "amount_comparison">>
    /\ (outcome = "failed") => charts = <<>>
    /\ (charts # <<>>) => (pc = "show" \/ (pc = "idle" /\ outcome \in {"ok", "none"}))
    /\ (pc = "show") => Len(charts) = 3

\* a successful run has ended with its three charts
C9_Witness ==
    /\ outcome = "ok"
    /\ pc = "idle"
    /\ Len(charts) = 3
    /\ Len(series) = 3

\* the days of a reply that carry a rate for the target
Usable(items, target) ==
    {i \in 1..Len(items) :
        /\ target \in DOMAIN items[i].payload
        /\ items[i].payload[target] # Null}

\* C6: for a reply with a "rates" field, fetch_timeseries returns exactly the
\* days that carry a value for the target, each with that value, in strictly
\* ascending date order; it raises the data error exactly when there is no
\* such day, and never returns an empty mapping.
C6_TimeseriesFilter ==
    (fnOut.stage >= 1 /\ fnIn.status = "ok" /\ fnIn.hasRates) =>
        LET items == fnIn.items
            good == Usable(items, HistTarget)
            r == fnOut.ts
        IN  /\ (good = {}) <=> (r.exc = "ValueError")
            /\ (good # {}) =>
                  /\ r.exc = "none"
                  /\ Len(r.rates) = Cardinality(good)
                  /\ {<<r.rates[j].day, r.rates[j].val>> : j \in 1..Len(r.rates)}
                       = {<<items[i].day, items[i].payload[HistTarget]>> : i \in good}
                  /\ \A j, k \in 1..Len(r.rates) :
                        j < k => r.rates[j].day < r.rates[k].day
            /\ (r.exc = "none") => r.rates # <<>>

\* a reply in descending wire order with one day lacking the target and one
\* day whose rate is 0 has been filtered and sorted
C6_Witness ==
    /\ fnOut.stage >= 1
    /\ fnIn.status = "ok"
    /\ fnIn.hasRates
    /\ Len(fnIn.items) = 3
    /\ fnIn.items[1].day > fnIn.items[2].day
    /\ Cardinality(Usable(fnIn.items, HistTarget)) = 2
    /\ fnOut.ts.exc = "none"
    /\ Len(fnOut.ts.rates) = 2
    /\ fnOut.ts.rates[1].val = Fin(0, 1)

RECURSIVE IntSum(_, _)
\* the sum of the first m rates of a series of whole-number rates
IntSum(rates, m) == IF m = 0 THEN 0 ELSE rates[m].val.n + IntSum(rates, m - 1)

\* C3: for a non-empty series the average is the mean of all values but the
\* last when the last date is today and there is more than one point, and the
\* mean of all values otherwise.
C3_AverageExcludesToday ==
    (fnOut.stage = 2) =>
        LET rates == fnOut.ts.rates
            n == Len(rates)
            m == IF rates[n].day = Today /\ n > 1 THEN n - 1 ELSE n
            a == fnOut.avg
        IN  /\ a.exc = "none"
            /\ a.val.t = "fin"
            /\ a.val.n * m = IntSum(rates, m) * a.val.d

\* the series {d1: 10, d2: 20, today: 99} has the average 15
C3_Witness ==
    /\ fnOut.stage = 2
    /\ Len(fnOut.ts.rates) = 3
    /\ fnOut.ts.rates[3].day = Today
    /\ Values(fnOut.ts.rates) = <<Fin(10, 1), Fin(20, 1), Fin(99, 1)>>
    /\ fnOut.avg.val = Fin(15, 1)

\* C10: normalize_ccy returns the trimmed, upper-cased string when that string
\* is exactly 3 alphabetic characters and raises the validation error
\* otherwise; every returned value is 3 upper-case letters, and normalize_ccy
\* returns its own result unchanged.
C10_NormalizeCcy ==
    (fnOut.stage >= 1) =>
        LET c == Upper(Strip(fnIn))
            r == fnOut.first
        IN  /\ (Len(c) = 3 /\ IsAlpha(c)) => (r.exc = "none" /\ r.val = c)
            /\ ~(Len(c) = 3 /\ IsAlpha(c)) => r.exc = "ValueError"
            /\ (r.exc = "none") =>
                  /\ Len(r.val) = 3
                  /\ \A i \in 1..Len(r.val) : IsAlphaChar(r.val[i]) /\ IsUpperChar(r.val[i])
            /\ (fnOut.stage = 2) => fnOut.second = r

====
